---- MODULE Spec2Model ----
(***************************************************************************)
(* State-machine model of the alx-polly server layer: the input validator, *)
(* the poll/vote server actions, the admin middleware, and the store       *)
(* (polls, votes, user_roles tables) they talk to.                         *)
(***************************************************************************)
EXTENDS Integers, Sequences, FiniteSets, Bags, TLC

(* ------------------------------ bounds -------------------------------- *)

\* number of poll ids the store hands out in one behaviour
MaxPolls == 2
\* number of calls of the mutating server actions started in one behaviour
MaxCalls == 2

(* ------------------------- program constants -------------------------- *)

QuestionMinLen == 5
QuestionMaxLen == 200
OptionMaxLen == 100

(* ------------------------------ values -------------------------------- *)

Users == {"u1", "u2"}
\* JS null / undefined
NullV == "null"
Undefined == "undefined"
NoUser == "nobody"

\* user-facing and store messages
MsgQEmpty == "Poll question cannot be empty"
MsgQShort == "Poll question must be at least 5 characters long"
MsgQLong == "Poll question cannot exceed 200 characters"
MsgOFew == "Poll must have at least 2 non-empty options"
MsgODup == "Poll options must be unique"
MsgOLong == "Poll options cannot exceed 100 characters"
MsgLoginCreate == "You must be logged in to create a poll."
MsgLoginDelete == "You must be logged in to delete a poll."
MsgLoginUpdate == "You must be logged in to update a poll."
MsgLoginVote == "You must be logged in to vote."
MsgAlreadyVoted == "You have already voted on this poll."
MsgPollNotFound == "Poll not found."
MsgNotAuthenticated == "Not authenticated"
\* messages the auth service and the store put in error.message
MsgAuthError == "Auth session missing!"
MsgBackend == "backend request failed"
MsgUniqueViolation == "duplicate key value violates unique constraint"
MsgFkViolation == "insert or update on table violates foreign key constraint"
MsgNoRows == "JSON object requested, multiple (or no) rows returned"
MsgNoColumn == "Could not find the column in the schema cache"

\* the store's error codes
CodeNone == "ok"
CodeFault == "FAULT"
CodeNoRows == "PGRST116"
CodeUnique == "23505"
CodeFk == "23503"
CodeNoColumn == "PGRST204"

(* ------------------------------- text --------------------------------- *)
(* A string is a sequence of tokens.  A token is one character, except the *)
(* two multi-character units the sanitizer treats as a whole.              *)

TokScript == "<script>x</script>"
TokAmpEntity == "&amp;"

Width(tok) ==
  IF tok = TokScript THEN 18 ELSE IF tok = TokAmpEntity THEN 5 ELSE 1

Count(s, tok) == Cardinality({i \in DOMAIN s : s[i] = tok})

\* String.prototype.length: the number of UTF-16 code units, the sum of the
\* widths of the tokens
JsLength(s) ==
  Len(s) + Count(s, TokScript) * (Width(TokScript) - 1)
         + Count(s, TokAmpEntity) * (Width(TokAmpEntity) - 1)

RECURSIVE TrimStart(_)
TrimStart(s) ==
  IF s = <<>> THEN s
  ELSE IF Head(s) = " " THEN TrimStart(Tail(s)) ELSE s

RECURSIVE TrimEnd(_)
TrimEnd(s) ==
  IF s = <<>> THEN s
  ELSE IF s[Len(s)] = " " THEN TrimEnd(SubSeq(s, 1, Len(s) - 1)) ELSE s

\* String.prototype.trim
Trim(s) == TrimEnd(TrimStart(s))

IsNotScript(tok) == tok # TokScript

\* DOMPurify.sanitize with its default configuration: script elements are
\* removed with their content, a bare ampersand is serialised as an entity,
\* plain text is kept.
Sanitize(s) ==
  LET kept == SelectSeq(s, IsNotScript) IN
  [i \in DOMAIN kept |-> IF kept[i] = "&" THEN TokAmpEntity ELSE kept[i]]

Range(f) == {f[i] : i \in DOMAIN f}

IsNonEmpty(s) == s # <<>>

(* --------------------------- JSON round trip --------------------------- *)

TokQuote == "\""
TokEscQuote == "\\\""

\* the body of one JSON string literal: a quote is escaped
JsonEscape(s) == [i \in DOMAIN s |-> IF s[i] = TokQuote THEN TokEscQuote ELSE s[i]]
JsonUnescape(s) == [i \in DOMAIN s |-> IF s[i] = TokEscQuote THEN TokQuote ELSE s[i]]

RECURSIVE JsonJoin(_)
JsonJoin(list) ==
  IF list = <<>> THEN <<>>
  ELSE <<TokQuote>> \o JsonEscape(Head(list)) \o <<TokQuote>>
       \o (IF Len(list) > 1 THEN <<",">> ELSE <<>>) \o JsonJoin(Tail(list))

\* JSON.stringify of an array of strings
JsonStringify(list) == <<"[">> \o JsonJoin(list) \o <<"]">>

\* JSON.parse of the text JSON.stringify produced: the string literals, each
\* between an opening and the next closing quote, unescaped
JsonParse(text) ==
  LET IsQuoteAt(i) == text[i] = TokQuote
      quotes == SelectSeq([i \in 1..Len(text) |-> i], IsQuoteAt)
  IN [k \in 1..(Len(quotes) \div 2) |->
        JsonUnescape(SubSeq(text, quotes[2 * k - 1] + 1, quotes[2 * k] - 1))]

(* ----------------------------- validator ------------------------------ *)

\* a validateQuestion with the upper limit its doc comment names
validateQuestionMax500(question) ==
  LET trimmedQuestion == Trim(question) IN
  IF trimmedQuestion = <<>>
  THEN [isValid |-> FALSE, error |-> MsgQEmpty]
  ELSE IF JsLength(trimmedQuestion) < QuestionMinLen
  THEN [isValid |-> FALSE, error |-> MsgQShort]
  ELSE IF JsLength(trimmedQuestion) > 500
  THEN [isValid |-> FALSE, error |-> MsgQLong]
  ELSE [isValid |-> TRUE, sanitizedValue |-> Sanitize(trimmedQuestion)]

validateQuestion(question) ==
  LET trimmedQuestion == Trim(question) IN
  IF trimmedQuestion = <<>>
  THEN [isValid |-> FALSE, error |-> MsgQEmpty]
  ELSE IF JsLength(trimmedQuestion) < QuestionMinLen
  THEN [isValid |-> FALSE, error |-> MsgQShort]
  ELSE IF JsLength(trimmedQuestion) > QuestionMaxLen
  THEN [isValid |-> FALSE, error |-> MsgQLong]
  ELSE [isValid |-> TRUE, sanitizedValue |-> Sanitize(trimmedQuestion)]

ToLowerCase(s) ==
  [i \in DOMAIN s |-> CASE s[i] = "A" -> "a" [] s[i] = "X" -> "x"
                         [] s[i] = "Y" -> "y" [] OTHER -> s[i]]

\* a validateOptions that takes entries differing only in case for duplicates
validateOptionsIgnoringCase(options) ==
  LET filteredOptions == SelectSeq([i \in DOMAIN options |-> Trim(options[i])], IsNonEmpty) IN
  IF Len(filteredOptions) < 2
  THEN [isValid |-> FALSE, error |-> MsgOFew]
  ELSE IF Cardinality({ToLowerCase(o) : o \in Range(filteredOptions)})
          # Len(filteredOptions)
  THEN [isValid |-> FALSE, error |-> MsgODup]
  ELSE IF \E i \in DOMAIN filteredOptions :
            JsLength(filteredOptions[i]) > OptionMaxLen
  THEN [isValid |-> FALSE, error |-> MsgOLong]
  ELSE [isValid |-> TRUE,
        sanitizedValue |-> JsonStringify([i \in DOMAIN filteredOptions |->
                                         Sanitize(filteredOptions[i])])]

\* a validateOptions that tests the length before the duplicates
validateOptionsLengthFirst(options) ==
  LET filteredOptions == SelectSeq([i \in DOMAIN options |-> Trim(options[i])], IsNonEmpty) IN
  IF Len(filteredOptions) < 2
  THEN [isValid |-> FALSE, error |-> MsgOFew]
  ELSE IF \E i \in DOMAIN filteredOptions :
            JsLength(filteredOptions[i]) > OptionMaxLen
  THEN [isValid |-> FALSE, error |-> MsgOLong]
  ELSE IF Cardinality(Range(filteredOptions)) # Len(filteredOptions)
  THEN [isValid |-> FALSE, error |-> MsgODup]
  ELSE [isValid |-> TRUE,
        sanitizedValue |-> JsonStringify([i \in DOMAIN filteredOptions |->
                                         Sanitize(filteredOptions[i])])]

validateOptions(options) ==
  LET filteredOptions == SelectSeq([i \in DOMAIN options |-> Trim(options[i])], IsNonEmpty) IN
  IF Len(filteredOptions) < 2
  THEN [isValid |-> FALSE, error |-> MsgOFew]
  ELSE IF Cardinality(Range(filteredOptions)) # Len(filteredOptions)
  THEN [isValid |-> FALSE, error |-> MsgODup]
  ELSE IF \E i \in DOMAIN filteredOptions :
            JsLength(filteredOptions[i]) > OptionMaxLen
  THEN [isValid |-> FALSE, error |-> MsgOLong]
  ELSE [isValid |-> TRUE,
        sanitizedValue |-> JsonStringify([i \in DOMAIN filteredOptions |->
                                         Sanitize(filteredOptions[i])])]

(* ------------------------------- state -------------------------------- *)

VARIABLES
  polls,    \* polls table: poll id -> row
  nextId,   \* next poll id the store generates
  votes,    \* votes table: set of rows
  roles,    \* user_roles table: user id -> role row, or no row
  rls,      \* whether the store's row-level-security policies are enabled
  voteColumn, \* the votes table's option column: option_id or option_index
  env,      \* environment variables that are set
  calls,    \* bag of calls of the mutating server actions, in flight or returned
  resp,     \* the answers to the last middleware request and the last getPollById
  granted,  \* users a handler has treated as admin so far
  draft,    \* the text a form holds when it is handed to a validator
  verdict,  \* the ValidationResult the validator gave for the draft
  detail    \* the state of a mounted PollDetail component

vars == <<polls, nextId, votes, roles, rls, voteColumn, env, calls, resp, granted,
          draft, verdict, detail>>

\* the state outside the server: the form in front of a validator and the
\* PollDetail component
clientVars == <<draft, verdict, detail>>

\* options as the client types declare them: object with id, text, votes
ObjOpt(id, text) == [kind |-> "obj", id |-> id, text |-> text, votes |-> 0]
\* options as createPoll and updatePoll persist them: bare strings
StrOpt(text) == [kind |-> "str", id |-> Undefined, text |-> text, votes |-> 0]

StrOpts(texts) == [i \in DOMAIN texts |-> StrOpt(texts[i])]

OptionIds == {"o1", "o2"}

TxtYes == <<"Y", "e", "s">>
TxtNo == <<"N", "o">>
TxtBest == <<"B", "e", "s", "t", "?">>

\* the poll present in the store at the start, with options in the declared shape
SeedPoll ==
  [user_id |-> "u1", question |-> TxtBest,
   options |-> <<ObjOpt("o1", TxtYes), ObjOpt("o2", TxtNo)>>,
   created_at |-> 1]

PollIds == 1..MaxPolls

EnvVars == {"NEXT_PUBLIC_SUPABASE_URL", "NEXT_PUBLIC_SUPABASE_ANON_KEY",
            "SUPABASE_SERVICE_ROLE_KEY"}

\* what supabase.auth.getUser() can return
AuthOutcomes ==
  {[user |-> u, error |-> NullV] : u \in Users}
  \cup {[user |-> NoUser, error |-> NullV], [user |-> NoUser, error |-> MsgAuthError]}

(* ------------------------------- store -------------------------------- *)
(* The hosted store, as the schema in the README declares it.  fail is a   *)
(* request that does not get through (network, service down).              *)

NoFilter == "any"

StoreFault == [code |-> CodeFault, message |-> MsgBackend]
StoreOk == [code |-> CodeNone, message |-> NullV]

VoteRows(p, u) == {v \in votes : v.poll_id = p /\ v.user_id = u}

\* select().eq("id", id).single() on a polls table
SelectPoll(table, id, fail) ==
  IF fail THEN [found |-> FALSE] @@ StoreFault
  ELSE IF id \in DOMAIN table THEN [found |-> TRUE] @@ StoreOk
  ELSE [found |-> FALSE, code |-> CodeNoRows, message |-> MsgNoRows]

\* from("polls").select().eq("id", id).single()
DbSelectPoll(id, fail) == SelectPoll(polls, id, fail)

\* the rows of ids, each with its id, the latest created first
NewestFirst(ids) ==
  LET order == CHOOSE s \in [1..Cardinality(ids) -> ids] :
                 /\ \A i, j \in DOMAIN s : i # j => s[i] # s[j]
                 /\ \A i, j \in DOMAIN s :
                      i < j => polls[s[i]].created_at >= polls[s[j]].created_at
  IN [i \in DOMAIN order |-> [id |-> order[i]] @@ polls[order[i]]]

\* a select of the polls that leaves the owner filter out
DbSelectAllPolls(owner, fail) ==
  IF fail THEN [data |-> <<>>] @@ StoreFault
  ELSE [data |-> NewestFirst(DOMAIN polls)] @@ StoreOk

\* from("polls").select("*").eq("user_id", owner)
\*   .order("created_at", { ascending: false })
DbSelectPollsByOwner(owner, fail) ==
  IF fail THEN [data |-> <<>>] @@ StoreFault
  ELSE [data |-> NewestFirst({id \in DOMAIN polls : polls[id].user_id = owner})]
       @@ StoreOk

\* from("votes").select().eq("poll_id", p).eq("user_id", u).single()
DbSelectVote(p, u, fail) ==
  IF fail THEN [found |-> FALSE] @@ StoreFault
  ELSE IF Cardinality(VoteRows(p, u)) = 1 THEN [found |-> TRUE] @@ StoreOk
  ELSE [found |-> FALSE, code |-> CodeNoRows, message |-> MsgNoRows]

\* the option columns the two submitVote write: option_id is the README's
VoteColumns == {"option_id", "option_index"}

\* the row as the table keeps it
Stored(row) ==
  [user_id |-> row.user_id, poll_id |-> row.poll_id, option |-> row.option]

\* an insert with no UNIQUE(user_id, poll_id) to reject a second row of the pair
DbInsertVoteNoUnique(row, fail) ==
  IF fail THEN [votes |-> votes] @@ StoreFault
  ELSE IF row.column # voteColumn
  THEN [votes |-> votes, code |-> CodeNoColumn, message |-> MsgNoColumn]
  ELSE IF row.poll_id \notin DOMAIN polls
  THEN [votes |-> votes, code |-> CodeFk, message |-> MsgFkViolation]
  ELSE [votes |-> votes \cup {Stored(row)}] @@ StoreOk

\* from("votes").insert([row]): a column the table has, poll_id REFERENCES
\* polls(id), UNIQUE(user_id, poll_id)
DbInsertVote(row, fail) ==
  IF fail THEN [votes |-> votes] @@ StoreFault
  ELSE IF row.column # voteColumn
  THEN [votes |-> votes, code |-> CodeNoColumn, message |-> MsgNoColumn]
  ELSE IF row.poll_id \notin DOMAIN polls
  THEN [votes |-> votes, code |-> CodeFk, message |-> MsgFkViolation]
  ELSE IF VoteRows(row.poll_id, row.user_id) # {}
  THEN [votes |-> votes, code |-> CodeUnique, message |-> MsgUniqueViolation]
  ELSE [votes |-> votes \cup {Stored(row)}] @@ StoreOk

\* from("polls").insert([row]); the store generates id and created_at
DbInsertPoll(row, fail) ==
  IF fail THEN [polls |-> polls, nextId |-> nextId] @@ StoreFault
  ELSE [polls |-> polls @@ (nextId :> (row @@ [created_at |-> nextId])),
        nextId |-> nextId + 1] @@ StoreOk

\* an UPDATE or DELETE that matches on the id alone
TouchableById(id, filterUser, caller) == id \in DOMAIN polls

\* the rows an UPDATE or DELETE by caller may touch: policy USING (auth.uid() = user_id)
Touchable(id, filterUser, caller) ==
  /\ id \in DOMAIN polls
  /\ filterUser \in {NoFilter, polls[id].user_id}
  /\ rls => polls[id].user_id = caller

Patched(row, patch) ==
  [f \in DOMAIN row |-> IF f \in DOMAIN patch THEN patch[f] ELSE row[f]]

\* from("polls").update(patch).eq("id", id)[.eq("user_id", filterUser)]
\* an update that matches no row is no error
DbUpdatePoll(id, filterUser, caller, patch, fail) ==
  IF fail THEN [polls |-> polls] @@ StoreFault
  ELSE IF Touchable(id, filterUser, caller)
  THEN [polls |-> [polls EXCEPT ![id] = Patched(polls[id], patch)]] @@ StoreOk
  ELSE [polls |-> polls] @@ StoreOk

\* from("polls").delete().eq("id", id).eq("user_id", filterUser)
\* votes.poll_id REFERENCES polls(id) ON DELETE CASCADE
DbDeletePoll(id, filterUser, caller, fail) ==
  IF fail THEN [polls |-> polls, votes |-> votes] @@ StoreFault
  ELSE IF Touchable(id, filterUser, caller)
  THEN [polls |-> [i \in DOMAIN polls \ {id} |-> polls[i]],
        votes |-> {v \in votes : v.poll_id # id}] @@ StoreOk
  ELSE [polls |-> polls, votes |-> votes] @@ StoreOk

\* a role lookup that answers from what an earlier request was granted
DbSelectRoleCached(u, fail) ==
  IF u \in granted THEN [found |-> TRUE, role |-> "admin"] @@ StoreOk
  ELSE IF fail THEN [found |-> FALSE, role |-> NullV] @@ StoreFault
  ELSE IF roles[u] # NullV THEN [found |-> TRUE, role |-> roles[u]] @@ StoreOk
  ELSE [found |-> FALSE, role |-> NullV, code |-> CodeNoRows, message |-> MsgNoRows]

\* from("user_roles").select("role").eq("user_id", u).single()
DbSelectRole(u, fail) ==
  IF fail THEN [found |-> FALSE, role |-> NullV] @@ StoreFault
  ELSE IF roles[u] # NullV THEN [found |-> TRUE, role |-> roles[u]] @@ StoreOk
  ELSE [found |-> FALSE, role |-> NullV, code |-> CodeNoRows, message |-> MsgNoRows]

(* -------------------------- server: client ----------------------------- *)

\* getEnvVariable throws when the variable is not set
createClientThrows ==
  ~({"NEXT_PUBLIC_SUPABASE_URL", "NEXT_PUBLIC_SUPABASE_ANON_KEY"} \subseteq env)

(* ------------------------ server: poll actions ------------------------- *)
(* Each handler is a function of the store and of its inputs: the form,    *)
(* what getUser returned (auth) and whether its store call gets through.   *)
(* It gives the value the caller receives (result: the error field, or an  *)
(* uncaught exception), the store error code behind it, and the tables     *)
(* afterwards.                                                             *)

ThrownError == "uncaught Error"
ThrownTypeError == "uncaught TypeError"
ThrownReferenceError == "uncaught ReferenceError"
Thrown == {ThrownError, ThrownTypeError, ThrownReferenceError}

\* what a handler passed to revalidatePath before it returned
RevalidatedNone == "none"
RevalidatedPolls == "/polls"
RevalidatedPoll == "/polls/${pollId}"

Returned(result, code) ==
  [result |-> result, code |-> code, polls |-> polls, nextId |-> nextId,
   votes |-> votes, revalidated |-> RevalidatedNone]

\* a createPoll that inserts what was posted and validates afterwards
createPollValidatingLast(formData, auth, fail) ==
  IF createClientThrows THEN Returned(ThrownError, CodeNone)
  ELSE IF ~formData.has_question THEN Returned(ThrownTypeError, CodeNone)
  ELSE IF auth.error # NullV THEN Returned(auth.error, CodeNone)
  ELSE IF auth.user = NoUser THEN Returned(MsgLoginCreate, CodeNone)
  ELSE
  LET questionValidation == validateQuestion(formData.question)
      optionsValidation ==
        validateOptions(SelectSeq(formData.options, IsNonEmpty))
      ins == DbInsertPoll([user_id |-> auth.user,
                           question |-> Trim(formData.question),
                           options |-> StrOpts(SelectSeq(formData.options,
                                                         IsNonEmpty))], fail)
      result == IF ~questionValidation.isValid THEN questionValidation.error
                ELSE IF ~optionsValidation.isValid THEN optionsValidation.error
                ELSE NullV
  IN
  IF ins.code # CodeNone THEN Returned(ins.message, ins.code)
  ELSE [Returned(result, CodeNone) EXCEPT !.polls = ins.polls, !.nextId = ins.nextId]

createPoll(formData, auth, fail) ==
  IF createClientThrows THEN Returned(ThrownError, CodeNone)
  ELSE IF ~formData.has_question THEN Returned(ThrownTypeError, CodeNone)
  ELSE
  LET questionValidation == validateQuestion(formData.question)
      optionsValidation ==
        validateOptions(SelectSeq(formData.options, IsNonEmpty))
  IN
  IF ~questionValidation.isValid
  THEN Returned(questionValidation.error, CodeNone)
  ELSE IF ~optionsValidation.isValid
  THEN Returned(optionsValidation.error, CodeNone)
  ELSE IF auth.error # NullV THEN Returned(auth.error, CodeNone)
  ELSE IF auth.user = NoUser THEN Returned(MsgLoginCreate, CodeNone)
  ELSE
  LET question == questionValidation.sanitizedValue
      options == JsonParse(optionsValidation.sanitizedValue)
      ins == DbInsertPoll([user_id |-> auth.user, question |-> question,
                           options |-> StrOpts(options)], fail)
  IN
  IF ins.code # CodeNone THEN Returned(ins.message, ins.code)
  ELSE [Returned(NullV, CodeNone) EXCEPT !.polls = ins.polls, !.nextId = ins.nextId,
                                         !.revalidated = RevalidatedPolls]

updatePoll(pollId, formData, auth, fail) ==
  IF createClientThrows THEN Returned(ThrownError, CodeNone)
  ELSE IF ~formData.has_question THEN Returned(ThrownTypeError, CodeNone)
  ELSE
  LET questionValidation == validateQuestion(formData.question)
      optionsValidation ==
        validateOptions(SelectSeq(formData.options, IsNonEmpty))
  IN
  IF ~questionValidation.isValid
  THEN Returned(questionValidation.error, CodeNone)
  ELSE IF ~optionsValidation.isValid
  THEN Returned(optionsValidation.error, CodeNone)
  ELSE IF auth.error # NullV THEN Returned(auth.error, CodeNone)
  ELSE IF auth.user = NoUser THEN Returned(MsgLoginUpdate, CodeNone)
  ELSE
  LET question == questionValidation.sanitizedValue
      options == JsonParse(optionsValidation.sanitizedValue)
      upd == DbUpdatePoll(pollId, auth.user, auth.user,
                          [question |-> question,
                           options |-> StrOpts(options)], fail)
  IN
  IF upd.code # CodeNone THEN Returned(upd.message, upd.code)
  ELSE [Returned(NullV, CodeNone) EXCEPT !.polls = upd.polls]

\* getUserPolls(): the caller's polls; queried tells whether the polls
\* table was asked
getUserPolls(auth, fail) ==
  IF createClientThrows
  THEN [polls |-> <<>>, error |-> ThrownError, queried |-> FALSE]
  ELSE IF auth.user = NoUser
  THEN [polls |-> <<>>, error |-> MsgNotAuthenticated, queried |-> FALSE]
  ELSE
  LET sel == DbSelectPollsByOwner(auth.user, fail) IN
  IF sel.code # CodeNone
  THEN [polls |-> <<>>, error |-> sel.message, queried |-> TRUE]
  ELSE [polls |-> sel.data, error |-> NullV, queried |-> TRUE]

\* the documented deletePoll(pollId): its filter reads a name, id, that is
\* bound nowhere, so evaluating it throws a ReferenceError
deletePoll(pollId, auth, fail) ==
  IF createClientThrows THEN Returned(ThrownError, CodeNone)
  ELSE IF auth.error # NullV THEN Returned(auth.error, CodeNone)
  ELSE IF auth.user = NoUser THEN Returned(MsgLoginDelete, CodeNone)
  ELSE Returned(ThrownReferenceError, CodeNone)

\* the earlier deletePoll(id)
deletePollById(id, auth, fail) ==
  IF createClientThrows THEN Returned(ThrownError, CodeNone)
  ELSE IF auth.error # NullV THEN Returned(auth.error, CodeNone)
  ELSE IF auth.user = NoUser THEN Returned(MsgLoginDelete, CodeNone)
  ELSE
  LET del == DbDeletePoll(id, auth.user, auth.user, fail) IN
  IF del.code # CodeNone THEN Returned(del.message, del.code)
  ELSE [Returned(NullV, CodeNone) EXCEPT !.polls = del.polls, !.votes = del.votes,
                                         !.revalidated = RevalidatedPolls]

(* ------------------------------- calls -------------------------------- *)
(* A call of a mutating server action is a record: the action (op), its    *)
(* caller and arguments, the place it has reached (pc), the updatedOptions *)
(* a submitVote computed (upd), the value it returned (result), the store  *)
(* error code behind that value (code), whether it changed the polls table *)
(* (wrote), whether one of its store requests did not get through (fault)  *)
(* and what it passed to revalidatePath (revalidated).  createPoll,        *)
(* updatePoll and deletePoll make one store call and are one step; every   *)
(* await of submitVote is one step.                                        *)

ResultPending == "pending"
ResultSuccess == "success"
NoOption == "-"

NewCall(op, user, pollId, option) ==
  [op |-> op, user |-> user, poll |-> pollId, opt |-> option,
   pc |-> "check", upd |-> <<>>, result |-> ResultPending, code |-> CodeNone,
   wrote |-> FALSE, fault |-> FALSE, revalidated |-> RevalidatedNone]

Done(c, result, code) == [c EXCEPT !.pc = "done", !.result = result, !.code = code]

\* c after a store request that did not get through when fail
After(c, fail) == [c EXCEPT !.fault = @ \/ fail]

\* the record of a one-step handler that gave r
Handled(op, auth, pollId, r) ==
  [Done(NewCall(op, auth.user, pollId, NoOption), r.result, r.code)
     EXCEPT !.wrote = r.polls # polls, !.fault = r.code = CodeFault,
            !.revalidated = r.revalidated]

(* --------------------------- poll actions ----------------------------- *)

TxtBlank == <<" ", " ", " ">>
TxtWhy == <<" ", "W", "h", "y", "?", "?", " ">>

\* a question that is one script element, and an option that ends in one
TxtScript == <<TokScript>>
TxtYesScript == TxtYes \o <<TokScript>>

\* forms a caller can post: a valid one, one both validators accept whose
\* texts hold markup, one the question validator rejects, one both validators
\* reject, one the options validator rejects, one without a question field
FormInputs ==
  {[has_question |-> TRUE, question |-> TxtWhy, options |-> <<TxtYes, <<>>, TxtNo>>],
   [has_question |-> TRUE, question |-> TxtScript,
    options |-> <<TxtYes, TxtYesScript>>],
   [has_question |-> TRUE, question |-> TxtBlank, options |-> <<TxtYes, TxtNo>>],
   [has_question |-> TRUE, question |-> TxtBlank, options |-> <<TxtYes>>],
   [has_question |-> TRUE, question |-> TxtWhy,
    options |-> <<TxtYes, TxtYes \o <<" ">>>>],
   [has_question |-> FALSE, question |-> <<>>, options |-> <<TxtYes, TxtNo>>]}

Budget == BagCardinality(calls) < MaxCalls

CreatePoll ==
  /\ Budget
  /\ nextId <= MaxPolls
  /\ \E formData \in FormInputs, auth \in AuthOutcomes, fail \in BOOLEAN :
       LET r == createPoll(formData, auth, fail) IN
       /\ polls' = r.polls
       /\ nextId' = r.nextId
       /\ votes' = r.votes
       /\ calls' = calls (+) SetToBag({Handled("createPoll", auth, 0, r)})
  /\ UNCHANGED <<roles, rls, voteColumn, env, resp, granted, clientVars>>

UpdatePoll ==
  /\ Budget
  /\ \E pollId \in PollIds, formData \in FormInputs, auth \in AuthOutcomes,
        fail \in BOOLEAN :
       LET r == updatePoll(pollId, formData, auth, fail) IN
       /\ polls' = r.polls
       /\ nextId' = r.nextId
       /\ votes' = r.votes
       /\ calls' = calls (+) SetToBag({Handled("updatePoll", auth, pollId, r)})
  /\ UNCHANGED <<roles, rls, voteColumn, env, resp, granted, clientVars>>

DeletePoll ==
  /\ Budget
  /\ \E pollId \in PollIds, auth \in AuthOutcomes, fail \in BOOLEAN :
       LET r == deletePoll(pollId, auth, fail) IN
       /\ polls' = r.polls
       /\ nextId' = r.nextId
       /\ votes' = r.votes
       /\ calls' = calls (+) SetToBag({Handled("deletePoll", auth, pollId, r)})
  /\ UNCHANGED <<roles, rls, voteColumn, env, resp, granted, clientVars>>

DeletePollById ==
  /\ Budget
  /\ \E id \in PollIds, auth \in AuthOutcomes, fail \in BOOLEAN :
       LET r == deletePollById(id, auth, fail) IN
       /\ polls' = r.polls
       /\ nextId' = r.nextId
       /\ votes' = r.votes
       /\ calls' = calls (+) SetToBag({Handled("deletePollById", auth, id, r)})
  /\ UNCHANGED <<roles, rls, voteColumn, env, resp, granted, clientVars>>

(* -------------------------- server: submitVote ------------------------- *)

\* createClient and getUser, the same in both submitVote variants
submitVoteStart(op, pollId, option, auth) ==
  LET c == NewCall(op, auth.user, pollId, option) IN
  IF createClientThrows THEN Done(c, ThrownError, CodeNone)
  ELSE IF auth.error # NullV THEN Done(c, auth.error, CodeNone)
  ELSE IF auth.user = NoUser THEN Done(c, MsgLoginVote, CodeNone)
  ELSE c

\* a submitVote that does not look at the existing vote
submitVoteCheckSkipped(c, fail) == [After(c, fail) EXCEPT !.pc = "read"]

\* submitVote(pollId, optionId): the existing-vote lookup; its error is not read
submitVoteCheck(c, fail) ==
  LET existingVote == DbSelectVote(c.poll, c.user, fail) IN
  IF existingVote.found THEN Done(c, MsgAlreadyVoted, CodeNone)
  ELSE [After(c, fail) EXCEPT !.pc = "read"]

\* the option whose id is optionId gets votes + 1; a bare string has no id
UpdatedOptions(options, optionId) ==
  [i \in DOMAIN options |->
     IF options[i].id = optionId
     THEN [options[i] EXCEPT !.votes = @ + 1]
     ELSE options[i]]

\* submitVote(pollId, optionId): read the poll's options, compute the new ones
submitVoteRead(c, fail) ==
  LET poll == DbSelectPoll(c.poll, fail) IN
  IF ~poll.found THEN Done(After(c, fail), MsgPollNotFound, poll.code)
  ELSE [c EXCEPT !.pc = "insert",
                 !.upd = UpdatedOptions(polls[c.poll].options, c.opt)]

\* the row a call inserts: option_id in submitVote(pollId, optionId),
\* option_index in submitVote(pollId, optionIndex)
VoteRow(c) ==
  [user_id |-> c.user, poll_id |-> c.poll,
   column |-> IF c.op = "submitVote" THEN "option_id" ELSE "option_index",
   option |-> c.opt]

\* a submitVote that does not read the insert's error
submitVoteInsertIgnoringError(c, fail) ==
  [call |-> [After(c, fail) EXCEPT !.pc = "update"],
   votes |-> DbInsertVote(VoteRow(c), fail).votes]

\* submitVote(pollId, optionId): record the vote
submitVoteInsert(c, fail) ==
  LET ins == DbInsertVote(VoteRow(c), fail) IN
  IF ins.code # CodeNone
  THEN [call |-> Done(After(c, fail), ins.message, ins.code), votes |-> votes]
  ELSE [call |-> [c EXCEPT !.pc = "update"], votes |-> ins.votes]

\* submitVote(pollId, optionId): write the options read earlier back, by id only
submitVoteUpdate(c, fail) ==
  LET upd == DbUpdatePoll(c.poll, NoFilter, c.user, [options |-> c.upd], fail) IN
  IF upd.code # CodeNone
  THEN [call |-> Done(After(c, fail), upd.message, upd.code), polls |-> polls]
  ELSE [call |-> [Done(c, ResultSuccess, CodeNone)
                    EXCEPT !.wrote = upd.polls # polls,
                           !.revalidated = RevalidatedPoll],
        polls |-> upd.polls]

\* submitVote(pollId, optionIndex): the lookup; only "no rows" is let through
submitVoteIndexCheck(c, fail) ==
  LET existingVote == DbSelectVote(c.poll, c.user, fail) IN
  IF existingVote.code \notin {CodeNone, CodeNoRows}
  THEN Done(After(c, fail), existingVote.message, existingVote.code)
  ELSE IF existingVote.found THEN Done(c, MsgAlreadyVoted, CodeNone)
  ELSE [c EXCEPT !.pc = "insert"]

\* submitVote(pollId, optionIndex): record the vote and return {error: null}
submitVoteIndexInsert(c, fail) ==
  LET ins == DbInsertVote(VoteRow(c), fail) IN
  IF ins.code # CodeNone
  THEN [call |-> Done(After(c, fail), ins.message, ins.code), votes |-> votes]
  ELSE [call |-> Done(c, NullV, CodeNone), votes |-> ins.votes]

(* -------------------------- submitVote steps --------------------------- *)

\* the option indexes a caller passes, written as the store keeps them
OptionIndexes == {"0", "1"}

Replace(c, d) == (calls (-) SetToBag({c})) (+) SetToBag({d})

At(op, pc) == {c \in BagToSet(calls) : c.op = op /\ c.pc = pc}

SubmitVoteStart ==
  /\ Budget
  /\ \E pollId \in PollIds, optionId \in OptionIds, auth \in AuthOutcomes :
       calls' = calls (+)
                SetToBag({submitVoteStart("submitVote", pollId, optionId, auth)})
  /\ UNCHANGED <<polls, nextId, votes, roles, rls, voteColumn, env, resp, granted, clientVars>>

SubmitVoteCheck ==
  /\ \E c \in At("submitVote", "check"), fail \in BOOLEAN :
       calls' = Replace(c, submitVoteCheck(c, fail))
  /\ UNCHANGED <<polls, nextId, votes, roles, rls, voteColumn, env, resp, granted, clientVars>>

SubmitVoteRead ==
  /\ \E c \in At("submitVote", "read"), fail \in BOOLEAN :
       calls' = Replace(c, submitVoteRead(c, fail))
  /\ UNCHANGED <<polls, nextId, votes, roles, rls, voteColumn, env, resp, granted, clientVars>>

SubmitVoteInsert ==
  /\ \E c \in At("submitVote", "insert"), fail \in BOOLEAN :
       LET r == submitVoteInsert(c, fail) IN
       /\ calls' = Replace(c, r.call)
       /\ votes' = r.votes
  /\ UNCHANGED <<polls, nextId, roles, rls, voteColumn, env, resp, granted, clientVars>>

SubmitVoteUpdate ==
  /\ \E c \in At("submitVote", "update"), fail \in BOOLEAN :
       LET r == submitVoteUpdate(c, fail) IN
       /\ calls' = Replace(c, r.call)
       /\ polls' = r.polls
  /\ UNCHANGED <<nextId, votes, roles, rls, voteColumn, env, resp, granted, clientVars>>

SubmitVoteIndexStart ==
  /\ Budget
  /\ \E pollId \in PollIds, optionIndex \in OptionIndexes, auth \in AuthOutcomes :
       calls' = calls (+)
                SetToBag({submitVoteStart("submitVoteIndex", pollId, optionIndex, auth)})
  /\ UNCHANGED <<polls, nextId, votes, roles, rls, voteColumn, env, resp, granted, clientVars>>

SubmitVoteIndexCheck ==
  /\ \E c \in At("submitVoteIndex", "check"), fail \in BOOLEAN :
       calls' = Replace(c, submitVoteIndexCheck(c, fail))
  /\ UNCHANGED <<polls, nextId, votes, roles, rls, voteColumn, env, resp, granted, clientVars>>

SubmitVoteIndexInsert ==
  /\ \E c \in At("submitVoteIndex", "insert"), fail \in BOOLEAN :
       LET r == submitVoteIndexInsert(c, fail) IN
       /\ calls' = Replace(c, r.call)
       /\ votes' = r.votes
  /\ UNCHANGED <<polls, nextId, roles, rls, voteColumn, env, resp, granted, clientVars>>

(* ------------------------ server: admin middleware --------------------- *)

\* a pathname, character by character
PathAdmin == <<"/", "a", "d", "m", "i", "n">>
PathAdminUsers == PathAdmin \o <<"/", "u", "s", "e", "r", "s">>
PathPolls == <<"/", "p", "o", "l", "l", "s">>
PathLogin == <<"/", "l", "o", "g", "i", "n">>
PathUnauthorized ==
  <<"/", "u", "n", "a", "u", "t", "h", "o", "r", "i", "z", "e", "d">>
NoLocation == <<>>

\* the pathnames of the requests made
Paths == {PathAdmin, PathAdminUsers, PathPolls}

\* String.prototype.startsWith
StartsWith(s, prefix) ==
  Len(s) >= Len(prefix) /\ SubSeq(s, 1, Len(prefix)) = prefix

\* the cookies the session client hands to setAll while it resolves the
\* identity: none when the token needs no refresh
CookieSets == {{}, {"sb-auth-token"}}

\* NextResponse.redirect(url): a new response, with no cookie set on it
Redirect(pathname) ==
  [kind |-> "redirect", location |-> pathname, cookies |-> {}]

\* NextResponse.next({request}) with the cookies setAll wrote on it
NextWith(cookies) == [kind |-> "next", location |-> NoLocation, cookies |-> cookies]

\* a check that asks only for a signed-in caller
checkAdminAccessAnyUser(auth, cookiesToSet, fail) ==
  IF auth.user = NoUser THEN Redirect(PathLogin) ELSE NextWith(cookiesToSet)

\* a check that turns a caller away only on a role row that is not admin
checkAdminAccessOnRowOnly(auth, cookiesToSet, fail) ==
  IF auth.user = NoUser THEN Redirect(PathLogin)
  ELSE
  LET userData == DbSelectRole(auth.user, fail) IN
  IF userData.found /\ userData.role # "admin"
  THEN Redirect(PathUnauthorized)
  ELSE NextWith(cookiesToSet)

checkAdminAccess(auth, cookiesToSet, fail) ==
  LET response == NextWith(cookiesToSet) IN
  IF ~({"NEXT_PUBLIC_SUPABASE_URL", "NEXT_PUBLIC_SUPABASE_ANON_KEY"} \subseteq env)
  THEN Redirect(PathLogin)
  ELSE IF auth.user = NoUser THEN Redirect(PathLogin)
  ELSE
  LET userData == DbSelectRole(auth.user, fail) IN
  IF userData.code # CodeNone \/ ~userData.found \/ userData.role # "admin"
  THEN Redirect(PathUnauthorized)
  ELSE response

\* a getUserRole whose default is 'admin'
getUserRoleDefaultAdmin(userId, fail) ==
  LET data == DbSelectRole(userId, fail) IN
  IF createClientThrows THEN ThrownError
  ELSE IF data.code # CodeNone \/ ~data.found THEN "admin"
  ELSE data.role

\* getUserRole(userId): the role of the row, 'user' without one
getUserRole(userId, fail) ==
  LET data == DbSelectRole(userId, fail) IN
  IF createClientThrows THEN ThrownError
  ELSE IF data.code # CodeNone \/ ~data.found THEN "user"
  ELSE data.role

NullUser == [null |-> TRUE]

\* getCurrentUserWithRole(): null without a session, else the user and role
getCurrentUserWithRole(auth, fail) ==
  IF createClientThrows THEN [thrown |-> ThrownError]
  ELSE IF auth.user = NoUser THEN NullUser
  ELSE LET role == getUserRole(auth.user, fail) IN
       IF role \in Thrown THEN [thrown |-> role]
       ELSE [id |-> auth.user, role |-> role]

\* isAdmin(): user?.role === 'admin'
isAdmin(auth, fail) ==
  LET user == getCurrentUserWithRole(auth, fail) IN
  IF "thrown" \in DOMAIN user THEN user.thrown
  ELSE user # NullUser /\ user.role = "admin"

\* the session resolver of the other routes: the request goes on, with the
\* refreshed cookies on the response
updateSession(auth, cookiesToSet) == NextWith(cookiesToSet)

middleware(pathname, auth, cookiesToSet, fail) ==
  IF StartsWith(pathname, PathAdmin)
  THEN checkAdminAccess(auth, cookiesToSet, fail)
  ELSE updateSession(auth, cookiesToSet)

\* validateEnvVariables() at the top of the middleware module throws unless
\* all three variables are set; the middleware then serves no request
middlewareLoaded == EnvVars \subseteq env

(* -------------------------- server: getPollById ------------------------ *)

\* poll: null
NullPoll == [null |-> TRUE]

\* the limited poll data, with the owner id
PublicProjectionWithOwner(data) ==
  [id |-> data.id, question |-> data.question, options |-> data.options,
   created_at |-> data.created_at, user_id |-> data.user_id]

\* the limited poll data for public viewing
PublicProjection(data) ==
  [id |-> data.id, question |-> data.question, options |-> data.options,
   created_at |-> data.created_at]

\* a getPollById that gives every signed-in caller the whole row
getPollByIdAnySignedIn(table, id, auth, failPoll, failRole) ==
  LET sel == SelectPoll(table, id, failPoll) IN
  IF sel.code # CodeNone THEN [poll |-> NullPoll, error |-> sel.message]
  ELSE
  LET data == [id |-> id] @@ table[id] IN
  IF auth.user = NoUser
  THEN [poll |-> PublicProjection(data), error |-> NullV, isOwner |-> FALSE]
  ELSE [poll |-> data, error |-> NullV, isOwner |-> auth.user = data.user_id]

\* getPollById(id) reading the polls table given
getPollByIdOn(table, id, auth, failPoll, failRole) ==
  IF createClientThrows THEN [thrown |-> ThrownError]
  ELSE
  LET sel == SelectPoll(table, id, failPoll) IN
  IF sel.code # CodeNone THEN [poll |-> NullPoll, error |-> sel.message]
  ELSE IF ~sel.found THEN [poll |-> NullPoll, error |-> "Poll not found"]
  ELSE
  LET data == [id |-> id] @@ table[id]
      limited == [poll |-> PublicProjection(data), error |-> NullV,
                  isOwner |-> FALSE]
  IN
  IF auth.user = NoUser THEN limited
  ELSE
  LET isOwner == auth.user = data.user_id IN
  IF ~isOwner /\ DbSelectRole(auth.user, failRole).role # "admin"
  THEN limited
  ELSE [poll |-> data, error |-> NullV, isOwner |-> isOwner]

getPollById(id, auth, failPoll, failRole) ==
  getPollByIdOn(polls, id, auth, failPoll, failRole)

(* ----------------------- requests and role changes --------------------- *)

\* accounts that own polls; u3 makes no request
Owners == Users \cup {"u3"}

Roles == {"user", "admin"}

\* whether a request of auth for pathname gets as far as the role lookup
RoleLookedUp(pathname, auth) ==
  StartsWith(pathname, PathAdmin) /\ auth.user # NoUser

Middleware ==
  /\ middlewareLoaded
  /\ \E pathname \in Paths, auth \in AuthOutcomes, cookiesToSet \in CookieSets,
        fail \in BOOLEAN :
       LET response == middleware(pathname, auth, cookiesToSet, fail) IN
       /\ resp' = [resp EXCEPT !.middleware =
                     [op |-> "middleware", pathname |-> pathname,
                      user |-> auth.user, cookiesToSet |-> cookiesToSet,
                      fault |-> fail /\ RoleLookedUp(pathname, auth),
                      response |-> response]]
       /\ granted' = IF StartsWith(pathname, PathAdmin) /\ response.kind = "next"
                     THEN granted \cup {auth.user} ELSE granted
  /\ UNCHANGED <<polls, nextId, votes, roles, rls, voteColumn, env, calls, clientVars>>

GetPollById ==
  /\ \E id \in PollIds, auth \in AuthOutcomes, failPoll \in BOOLEAN,
        failRole \in BOOLEAN :
       LET result == getPollById(id, auth, failPoll, failRole) IN
       /\ resp' = [resp EXCEPT !.getPollById =
                     [op |-> "getPollById", id |-> id, user |-> auth.user,
                      fault |-> failPoll, result |-> result]]
       /\ granted' = IF /\ "isOwner" \in DOMAIN result
                        /\ "user_id" \in DOMAIN result.poll
                        /\ ~result.isOwner
                     THEN granted \cup {auth.user} ELSE granted
  /\ UNCHANGED <<polls, nextId, votes, roles, rls, voteColumn, env, calls, clientVars>>

\* the store's administrative path: a role row is written or removed
SetRole ==
  /\ \E u \in Users, r \in Roles \cup {NullV} :
       roles' = [roles EXCEPT ![u] = r]
  /\ UNCHANGED <<polls, nextId, votes, rls, voteColumn, env, calls, resp, granted, clientVars>>

(* --------------------------- specification ---------------------------- *)

NoOutcome == "none"

\* PollDetail as its useState calls leave it; pc is where handleVote stands,
\* outcome how the last submitVote settled, attempts the submissions so far
Mounted(pollId) ==
  [pollId |-> pollId, selectedOption |-> NullV, hasVoted |-> FALSE,
   isSubmitting |-> FALSE, error |-> NullV, pc |-> "idle",
   outcome |-> NoOutcome, attempts |-> 0]

\* no form is in front of a validator
NoDraft == [kind |-> "none", question |-> <<>>, options |-> <<>>]
NoVerdict == [pending |-> TRUE]

NoRoles == [u \in Users |-> NullV]
NoAnswer == [op |-> "none"]
NoResp == [middleware |-> NoAnswer, getPollById |-> NoAnswer]

Init ==
  /\ polls = (1 :> SeedPoll)
  /\ nextId = 2
  /\ votes = {}
  /\ roles = NoRoles
  /\ rls \in BOOLEAN
  /\ voteColumn \in VoteColumns
  /\ env = EnvVars
  /\ calls = EmptyBag
  /\ resp = NoResp
  /\ granted = {}
  /\ draft = NoDraft
  /\ verdict = NoVerdict
  /\ detail = Mounted(1)

Next ==
  \/ CreatePoll
  \/ UpdatePoll
  \/ DeletePoll
  \/ DeletePollById
  \/ SubmitVoteStart
  \/ SubmitVoteCheck
  \/ SubmitVoteRead
  \/ SubmitVoteInsert
  \/ SubmitVoteUpdate
  \/ SubmitVoteIndexStart
  \/ SubmitVoteIndexCheck
  \/ SubmitVoteIndexInsert

Spec == Init /\ [][Next]_vars

\* requests against a store whose poll belongs to any account
InitAuthz ==
  /\ \E o \in Owners : polls = (1 :> [SeedPoll EXCEPT !.user_id = o])
  /\ nextId = 2
  /\ votes = {}
  /\ roles = NoRoles
  /\ rls = TRUE
  /\ voteColumn = "option_id"
  /\ env = EnvVars
  /\ calls = EmptyBag
  /\ resp = NoResp
  /\ granted = {}
  /\ draft = NoDraft
  /\ verdict = NoVerdict
  /\ detail = Mounted(1)

NextAuthz ==
  \/ Middleware
  \/ GetPollById
  \/ SetRole

SpecAuthz == InitAuthz /\ [][NextAuthz]_vars


(* ----------------------- client: PollDetail ---------------------------- *)
(* The component holds selectedOption, hasVoted, isSubmitting and error.   *)
(* handleVote runs up to its await in the click that starts it, and from   *)
(* the await to its end when submitVote settles.                           *)

MaxAttempts == 3

MsgVoteFailed == "Failed to submit vote. Please try again."

\* how a submitVote call can settle: success, a returned error, a rejection
SubmitVoteOutcomes ==
  {ResultSuccess, MsgAuthError, MsgLoginVote, MsgAlreadyVoted, MsgPollNotFound,
   MsgBackend, MsgUniqueViolation, ThrownError}

\* the Submit Vote button's disabled attribute
Disabled(d) == d.selectedOption = NullV \/ d.isSubmitting

\* handleVote, up to the await
handleVote(d) ==
  IF d.selectedOption = NullV THEN d
  ELSE [d EXCEPT !.isSubmitting = TRUE, !.error = NullV, !.pc = "awaiting",
                 !.outcome = NoOutcome, !.attempts = @ + 1]

\* a handleVote that clears isSubmitting at the end of the try block only
handleVoteSettledWithoutFinally(d, outcome) ==
  IF outcome \in Thrown
  THEN [d EXCEPT !.error = MsgVoteFailed, !.pc = "idle", !.outcome = outcome]
  ELSE IF outcome # ResultSuccess
  THEN [d EXCEPT !.error = outcome, !.isSubmitting = FALSE, !.pc = "idle",
                 !.outcome = outcome]
  ELSE [d EXCEPT !.hasVoted = TRUE, !.isSubmitting = FALSE, !.pc = "idle",
                 !.outcome = outcome]

\* handleVote, from the await on: try, catch, finally
handleVoteSettled(d, outcome) ==
  LET tried == IF outcome \in Thrown THEN [d EXCEPT !.error = MsgVoteFailed]
               ELSE IF outcome # ResultSuccess THEN [d EXCEPT !.error = outcome]
               ELSE [d EXCEPT !.hasVoted = TRUE]
  IN [tried EXCEPT !.isSubmitting = FALSE, !.pc = "idle", !.outcome = outcome]

\* a click on an option of the vote form
SelectOption ==
  /\ ~detail.hasVoted
  /\ \E option \in OptionIds : detail' = [detail EXCEPT !.selectedOption = option]
  /\ UNCHANGED <<polls, nextId, votes, roles, rls, voteColumn, env, calls, resp,
                 granted, draft, verdict>>

\* a click on the Submit Vote button of the vote form
HandleVote ==
  /\ ~detail.hasVoted
  /\ ~Disabled(detail)
  /\ detail.attempts < MaxAttempts
  /\ detail' = handleVote(detail)
  /\ UNCHANGED <<polls, nextId, votes, roles, rls, voteColumn, env, calls, resp,
                 granted, draft, verdict>>

\* the submitVote call handleVote awaits settles
SubmitVoteSettles ==
  /\ detail.pc = "awaiting"
  /\ \E outcome \in SubmitVoteOutcomes :
       detail' = handleVoteSettled(detail, outcome)
  /\ UNCHANGED <<polls, nextId, votes, roles, rls, voteColumn, env, calls, resp,
                 granted, draft, verdict>>

InitDetail ==
  /\ polls = (1 :> SeedPoll)
  /\ nextId = 2
  /\ votes = {}
  /\ roles = NoRoles
  /\ rls = TRUE
  /\ voteColumn = "option_id"
  /\ env = EnvVars
  /\ calls = EmptyBag
  /\ resp = NoResp
  /\ granted = {}
  /\ draft = NoDraft
  /\ verdict = NoVerdict
  /\ \E pollId \in PollIds : detail = Mounted(pollId)

NextDetail ==
  \/ SelectOption
  \/ HandleVote
  \/ SubmitVoteSettles

SpecDetail == InitDetail /\ [][NextDetail]_vars
(* ------------------------ validators on a form ------------------------- *)
(* A form hands its question to validateQuestion, or its options to        *)
(* validateOptions.  A question draft is drawn from texts of every length  *)
(* up to MaxQuestionChars letters, bare or behind a script element, an     *)
(* ampersand or two words, with and without blanks around them; an options *)
(* draft from the lists of up to MaxOptions entries.                       *)

MaxQuestionChars == 202

Letters(n) == [i \in 1..n |-> "a"]
Blanks == {<<>>, <<" ">>}
QuestionStarts == {<<>>, <<TokScript>>, <<"&">>, <<"a", " ">>}

QuestionInputs ==
  {l \o b \o Letters(n) \o r :
     l \in Blanks, b \in QuestionStarts, n \in 0..MaxQuestionChars, r \in Blanks}

QuestionDrafts ==
  {[kind |-> "question", question |-> q, options |-> <<>>] : q \in QuestionInputs}

MaxOptions == 3
MaxOptionChars == 101

\* what one option field can hold: nothing, a blank, one letter in either
\* case, another letter, a word with and without a blank after it, the
\* longest text allowed and one longer, a text behind a script element
OptionEntries ==
  {<<>>, <<" ">>, <<"A">>, <<"a">>, <<"X">>, TxtYes, TxtYes \o <<" ">>,
   Letters(OptionMaxLen), Letters(MaxOptionChars), <<TokScript, "A">>}

OptionInputs == UNION {[1..n -> OptionEntries] : n \in 0..MaxOptions}

OptionDrafts ==
  {[kind |-> "options", question |-> <<>>, options |-> o] : o \in OptionInputs}

ValidateQuestion ==
  /\ draft.kind = "question"
  /\ verdict = NoVerdict
  /\ verdict' = validateQuestion(draft.question)
  /\ UNCHANGED <<polls, nextId, votes, roles, rls, voteColumn, env, calls, resp,
                 granted, draft, detail>>

ValidateOptions ==
  /\ draft.kind = "options"
  /\ verdict = NoVerdict
  /\ verdict' = validateOptions(draft.options)
  /\ UNCHANGED <<polls, nextId, votes, roles, rls, voteColumn, env, calls, resp,
                 granted, draft, detail>>

InitValidation ==
  /\ polls = (1 :> SeedPoll)
  /\ nextId = 2
  /\ votes = {}
  /\ roles = NoRoles
  /\ rls = TRUE
  /\ voteColumn = "option_id"
  /\ env = EnvVars
  /\ calls = EmptyBag
  /\ resp = NoResp
  /\ granted = {}
  /\ draft \in QuestionDrafts \cup OptionDrafts
  /\ verdict = NoVerdict
  /\ detail = Mounted(1)

NextValidation ==
  \/ ValidateQuestion
  \/ ValidateOptions

SpecValidation == InitValidation /\ [][NextValidation]_vars

(* ------------------------------ claims -------------------------------- *)

VoteOps == {"submitVote", "submitVoteIndex"}

\* the calls of submitVote, either variant, by user u on poll p
VoteCalls(u, p) ==
  {c \in BagToSet(calls) : c.op \in VoteOps /\ c.user = u /\ c.poll = p}

\* {success: true} of submitVote(pollId, optionId), {error: null} of the other
Succeeded(c) ==
  /\ c.pc = "done"
  /\ \/ c.op = "submitVote" /\ c.result = ResultSuccess
     \/ c.op = "submitVoteIndex" /\ c.result = NullV

RECURSIVE SumCopies(_)
SumCopies(S) ==
  IF S = {} THEN 0
  ELSE LET c == CHOOSE x \in S : TRUE IN CopiesIn(c, calls) + SumCopies(S \ {c})

\* the step replaces call c by d
Steps(c, d) == d # c /\ calls' = Replace(c, d)

\* C1, the uniqueness half: the votes table holds at most one row for each
\* (poll, user) pair.
VotesUnique ==
  \A v \in votes, w \in votes :
    (v.user_id = w.user_id /\ v.poll_id = w.poll_id) => v = w

\* C1 as stated: at most one Vote row per (poll, user), and no step of this
\* layer modifies or deletes a Vote row that exists.
C1_VotesUniqueAndKept == []VotesUnique /\ [][votes \subseteq votes']_vars

\* C1 as amended: at most one Vote row per (poll, user); a Vote row that
\* exists stays as it is unless its poll is deleted in the same step, which
\* takes the poll's votes with it (ON DELETE CASCADE).
C1_VotesUniqueKeptUnlessPollDeleted ==
  /\ []VotesUnique
  /\ [][\A v \in votes : v \in votes' \/ (v.poll_id \in DOMAIN polls
                                           /\ v.poll_id \notin DOMAIN polls')]_vars

\* C1 witness: the uniqueness constraint has rejected a second insert for a
\* pair whose row is in the table.
C1_Witness ==
  \E c \in BagToSet(calls) :
    /\ c.op \in VoteOps /\ c.code = CodeUnique
    /\ VoteRows(c.poll, c.user) # {}

\* C2: of the submitVote calls for one (user, poll), at most one returns
\* success; exactly one does once they have all returned, every store request
\* got through and the pair's vote is recorded; a call that did not succeed
\* has not changed the polls table.
C2_ExactlyOneSucceeds ==
  /\ \A u \in Users, p \in PollIds :
       LET cs == VoteCalls(u, p)
           wins == SumCopies({c \in cs : Succeeded(c)})
       IN /\ wins <= 1
          /\ ( /\ \A c \in cs : c.pc = "done" /\ ~c.fault
               /\ VoteRows(p, u) # {} ) => wins = 1
  /\ \A c \in BagToSet(calls) :
       (c.op \in VoteOps /\ c.pc = "done" /\ ~Succeeded(c)) => ~c.wrote

\* C2 witness: two calls for one (user, poll) overlapped; one succeeded and the
\* other, past the lookup, was turned down at the insert.
C2_Witness ==
  \E c \in BagToSet(calls), d \in BagToSet(calls) :
    /\ c.op = "submitVote" /\ d.op = "submitVote"
    /\ c.user = d.user /\ c.poll = d.poll
    /\ Succeeded(c) /\ c.wrote
    /\ d.pc = "done" /\ d.code = CodeUnique

\* C3: a call turned down by the uniqueness constraint at the insert returns
\* the duplicate-vote message of the sequential case.
C3_RaceGivesDuplicateMessage ==
  \A c \in BagToSet(calls) :
    (c.op \in VoteOps /\ c.pc = "done" /\ c.code = CodeUnique)
      => c.result = MsgAlreadyVoted

\* C4: with no policy filtering the update, once every call on a poll is a
\* submitVote(pollId, optionId) that returned success, each option's counter
\* equals the number of Vote rows of the poll for that option.
C4_CountersMatchVotes ==
  \A p \in DOMAIN polls :
    ( /\ ~rls
      /\ \A i \in DOMAIN polls[p].options : polls[p].options[i].kind = "obj"
      /\ \A c \in BagToSet(calls) :
           c.poll = p => (c.op = "submitVote" /\ Succeeded(c)) )
    => \A i \in DOMAIN polls[p].options :
         polls[p].options[i].votes =
           Cardinality({v \in votes : v.poll_id = p
                                      /\ v.option = polls[p].options[i].id})

\* C5: a lookup that gets through and finds a Vote row of (pollId, caller)
\* ends the call with the duplicate-vote message, and the step writes nothing.
C5_DuplicateNoWrite ==
  [][\A c \in BagToSet(calls), d \in BagToSet(calls') :
       ( /\ c.op \in VoteOps /\ c.pc = "check"
         /\ VoteRows(c.poll, c.user) # {}
         /\ Steps(c, d) /\ ~d.fault )
       => /\ d.pc = "done" /\ d.result = MsgAlreadyVoted
          /\ votes' = votes /\ polls' = polls]_vars

\* C5 witness: a call by a user whose vote on the poll is recorded returned the
\* duplicate-vote message at the lookup.
C5_Witness ==
  \E c \in BagToSet(calls) :
    /\ c.op \in VoteOps /\ c.pc = "done"
    /\ c.result = MsgAlreadyVoted /\ c.upd = <<>>
    /\ VoteRows(c.poll, c.user) # {}

AdminPaths == {p \in Paths : StartsWith(p, PathAdmin)}

\* the answer to the last middleware request, when it was for an admin route
AdminAnswer ==
  /\ resp.middleware.op = "middleware"
  /\ StartsWith(resp.middleware.pathname, PathAdmin)

\* the answer to the last getPollById, when it found the poll
PollAnswer ==
  /\ resp.getPollById.op = "getPollById"
  /\ "isOwner" \in DOMAIN resp.getPollById.result

PublicFields == {"id", "question", "options", "created_at"}

C7_ResponseCarriesRefreshedCookies ==
  AdminAnswer
    => resp.middleware.response.cookies = resp.middleware.cookiesToSet

\* C8: in every reachable store, for a signed-in caller whose role lookup
\* fails or finds no row, the admin check answers with the redirect to
\* /unauthorized.
C8_LookupFailureIsNonAdmin ==
  \A auth \in AuthOutcomes, cookiesToSet \in CookieSets, fail \in BOOLEAN :
    (auth.user # NoUser /\ (fail \/ roles[auth.user] = NullV))
      => checkAdminAccess(auth, cookiesToSet, fail) = Redirect(PathUnauthorized)

\* C8 witness: a user whose role row says 'admin' was redirected to
\* /unauthorized because the role lookup did not get through.
C8_Witness ==
  /\ AdminAnswer
  /\ resp.middleware.user \in Users
  /\ resp.middleware.fault
  /\ roles[resp.middleware.user] = "admin"
  /\ resp.middleware.response = Redirect(PathUnauthorized)

\* C9: a user who was treated as admin by an earlier request and whose role
\* row no longer says 'admin' is redirected to /unauthorized by every
\* admin-route request, and every getPollById of that user that finds a poll
\* of another owner returns the public projection.
C9_RoleReadPerRequest ==
  \A u \in granted :
    roles[u] # "admin" =>
      LET auth == [user |-> u, error |-> NullV] IN
      /\ \A pathname \in AdminPaths, cookiesToSet \in CookieSets, fail \in BOOLEAN :
           LET r == middleware(pathname, auth, cookiesToSet, fail) IN
           r.kind = "redirect" /\ r.location = PathUnauthorized
      /\ \A id \in DOMAIN polls, failRole \in BOOLEAN :
           polls[id].user_id # u =>
             LET r == getPollById(id, auth, FALSE, failRole) IN
             /\ r.error = NullV
             /\ DOMAIN r.poll = PublicFields
             /\ ~r.isOwner

\* C9 witness: a user let through as admin earlier, whose role row now says
\* 'user', was redirected to /unauthorized and was given the public projection
\* of a poll of another owner.
C9_Witness ==
  /\ AdminAnswer /\ PollAnswer
  /\ resp.middleware.user \in granted
  /\ resp.getPollById.user = resp.middleware.user
  /\ roles[resp.middleware.user] = "user"
  /\ resp.middleware.response = Redirect(PathUnauthorized)
  /\ DOMAIN resp.getPollById.result.poll = PublicFields

\* C10: for a caller who is anonymous, or signed in but neither owner nor
\* admin, in the store and in the store that differs only in the poll's
\* user_id, getPollById gives the same result on both, and a result with a
\* poll has no user_id and isOwner false.
C10_OwnerIdNotRevealed ==
  \A id \in DOMAIN polls, auth \in AuthOutcomes, o \in Owners,
     failPoll \in BOOLEAN, failRole \in BOOLEAN :
    LET other == [polls EXCEPT ![id].user_id = o]
        r1 == getPollByIdOn(polls, id, auth, failPoll, failRole)
        r2 == getPollByIdOn(other, id, auth, failPoll, failRole)
    IN ( \/ auth.user = NoUser
         \/ /\ auth.user \notin {polls[id].user_id, o}
            /\ roles[auth.user] # "admin" )
       => /\ r1 = r2
          /\ r1.error = NullV
               => ("user_id" \notin DOMAIN r1.poll /\ r1.isOwner = FALSE)

\* C10 witness: a signed-in caller without the admin role was given a poll of
\* another owner, without its user_id.
C10_Witness ==
  /\ PollAnswer
  /\ resp.getPollById.user \in Users
  /\ resp.getPollById.id \in DOMAIN polls
  /\ polls[resp.getPollById.id].user_id # resp.getPollById.user
  /\ roles[resp.getPollById.user] # "admin"
  /\ "user_id" \notin DOMAIN resp.getPollById.result.poll

\* the whole stored row of poll id, as select("*") gives it
FullRow(id) == [id |-> id] @@ polls[id]

Calls(c) == calls' = calls (+) SetToBag({c})

\* c is a call by a signed-in user on a poll of another owner
OnPollOfAnother(c) ==
  /\ c.user \in Users
  /\ c.poll \in DOMAIN polls
  /\ polls[c.poll].user_id # c.user

\* C12: a call of updatePoll or deletePoll (either version) by a signed-in
\* caller on a poll of another owner leaves the poll's row as it was.
C12_NonOwnerLeavesPoll ==
  [][\A c \in BagToSet(calls') :
       ( /\ Calls(c)
         /\ c.op \in {"updatePoll", "deletePoll", "deletePollById"}
         /\ OnPollOfAnother(c) )
       => /\ c.poll \in DOMAIN polls'
          /\ polls'[c.poll] = polls[c.poll]]_vars

\* C12 witness: an updatePoll with valid input and a deletePoll(id), each by a
\* signed-in caller on a poll of another owner, went through to the store and
\* returned, and the poll is there.
C12_Witness ==
  \E c \in BagToSet(calls), d \in BagToSet(calls) :
    /\ c.op = "updatePoll" /\ d.op = "deletePollById"
    /\ OnPollOfAnother(c) /\ OnPollOfAnother(d)
    /\ c.result = NullV /\ d.result = NullV
    /\ ~c.wrote /\ ~d.wrote

\* the step is a step of the call that is d afterwards
StepOf(d) == Calls(d) \/ \E c \in BagToSet(calls) : Steps(c, d)

\* C13: a step that changes or removes an existing poll row is a step of a
\* call whose caller is the row's owner.
C13_WritesOnlyOwnPolls ==
  [][\A p \in DOMAIN polls :
       (p \notin DOMAIN polls' \/ polls'[p] # polls[p])
         => \A d \in BagToSet(calls') : StepOf(d) => d.user = polls[p].user_id]_vars

\* the result is {error: <a string>}
IsErrorString(result) ==
  result \notin {NullV, ResultSuccess, ResultPending} \cup Thrown

\* C14: a deletePoll (either version) by a signed-in caller on a poll of
\* another owner returns an error string.
C14_NonOwnerDeleteIsError ==
  \A c \in BagToSet(calls) :
    (c.op \in {"deletePoll", "deletePollById"} /\ OnPollOfAnother(c) /\ ~c.fault)
      => IsErrorString(c.result)

\* getUser outcomes without a caller identity: no user, or an error
Unidentified == {auth \in AuthOutcomes : auth.user = NoUser}

\* r, what a one-step server action gives, is an error string and no write
ErrorNoWrite(r) ==
  /\ IsErrorString(r.result)
  /\ r.polls = polls /\ r.votes = votes /\ r.nextId = nextId

\* the forms whose question and options both validators accept
ValidForms ==
  {f \in FormInputs :
     /\ f.has_question
     /\ validateQuestion(f.question).isValid
     /\ validateOptions(SelectSeq(f.options, IsNonEmpty)).isValid}

\* what C15 says of the calls that post one of forms
UnidentifiedRefusedOn(forms) ==
  /\ \A auth \in Unidentified, fail \in BOOLEAN, pollId \in PollIds :
       /\ \A formData \in forms :
            /\ ErrorNoWrite(createPoll(formData, auth, fail))
            /\ ErrorNoWrite(updatePoll(pollId, formData, auth, fail))
       /\ ErrorNoWrite(deletePoll(pollId, auth, fail))
       /\ ErrorNoWrite(deletePollById(pollId, auth, fail))
       /\ \A op \in VoteOps, option \in OptionIds \cup OptionIndexes :
            LET c == submitVoteStart(op, pollId, option, auth) IN
            c.pc = "done" /\ IsErrorString(c.result)
  /\ \A auth \in AuthOutcomes \ Unidentified, formData \in ValidForms \cap forms :
       LET r == createPoll(formData, auth, FALSE) IN
       /\ r.result = NullV
       /\ DOMAIN r.polls = DOMAIN polls \cup {nextId}
       /\ nextId \notin DOMAIN polls
       /\ r.polls[nextId].user_id = auth.user
       /\ \A p \in DOMAIN polls : r.polls[p] = polls[p]

\* C15: in every reachable store, createPoll, updatePoll, deletePoll and
\* submitVote without a caller identity return an error string and write
\* nothing, whatever the form and the arguments; createPoll with a valid form
\* by a signed-in caller adds exactly one poll, owned by the caller.
C15_UnidentifiedRefused == UnidentifiedRefusedOn(FormInputs)

\* C15 for the forms that carry a question field
C15_UnidentifiedRefusedWithQuestion ==
  UnidentifiedRefusedOn({f \in FormInputs : f.has_question})

ValidatorMessages == {MsgQEmpty, MsgQShort, MsgQLong, MsgOFew, MsgODup, MsgOLong}

\* r is the return of message, with the store as it was
ReturnsUnwritten(r, message) ==
  /\ r.result = message
  /\ r.polls = polls /\ r.votes = votes /\ r.nextId = nextId

\* the message the validators give a form: the question's first, the
\* options' when the question passes, NullV when both pass
Rejection(formData) ==
  LET questionValidation == validateQuestion(formData.question)
      optionsValidation ==
        validateOptions(SelectSeq(formData.options, IsNonEmpty))
  IN IF ~questionValidation.isValid THEN questionValidation.error
     ELSE IF ~optionsValidation.isValid THEN optionsValidation.error
     ELSE NullV

RejectedForms == {f \in FormInputs : f.has_question /\ Rejection(f) # NullV}

\* C16: in every reachable store, for every form with a question field, every
\* caller and every store outcome: when validateQuestion rejects the question,
\* createPoll and updatePoll return its message and the store is as it was;
\* when it accepts the question and validateOptions rejects the options, they
\* return that message and the store is as it was.
C16_ValidatorBeforeStore ==
  \A formData \in RejectedForms :
    LET message == Rejection(formData) IN
    /\ message \in ValidatorMessages
    /\ \A auth \in AuthOutcomes, fail \in BOOLEAN :
         /\ LET r == createPoll(formData, auth, fail)
            IN ReturnsUnwritten(r, message)
         /\ \A pollId \in PollIds :
              LET r == updatePoll(pollId, formData, auth, fail)
              IN ReturnsUnwritten(r, message)

\* C16 witness: a signed-in caller's createPoll returned the question's
\* message and the owner's updatePoll of an existing poll returned the
\* options' message, and neither wrote.
C16_Witness ==
  \E c \in BagToSet(calls), d \in BagToSet(calls) :
    /\ c.op = "createPoll" /\ c.user \in Users
    /\ c.result = MsgQEmpty /\ ~c.wrote
    /\ d.op = "updatePoll" /\ d.poll \in DOMAIN polls
    /\ d.user = polls[d.poll].user_id
    /\ d.result = MsgODup /\ ~d.wrote

Texts(options) == [i \in DOMAIN options |-> options[i].text]

WellFormed(poll) ==
  /\ JsLength(poll.question) \in QuestionMinLen..QuestionMaxLen
  /\ Len(poll.options) >= 2
  /\ \A i \in DOMAIN poll.options :
       /\ poll.options[i].text # <<>>
       /\ JsLength(poll.options[i].text) <= OptionMaxLen
  /\ Cardinality(Range(Texts(poll.options))) = Len(poll.options)

\* C17: every poll row in the store has a question of 5 to 200 characters as
\* persisted, and at least two options whose persisted texts are non-empty,
\* at most 100 characters long and pairwise distinct.
C17_StoredPollsWellFormed == \A id \in DOMAIN polls : WellFormed(polls[id])

\* C18: no call of a server action ends in an uncaught exception: every call
\* record holds a returned value, never a thrown error.
C18_NoUncaughtFault == \A c \in BagToSet(calls) : c.result \notin Thrown

\* every call of ops whose store request did not get through has returned,
\* and returned the store's message
FailureSurfacedIn(ops) ==
  \A c \in BagToSet(calls) :
    c.op \in ops /\ c.fault => c.pc = "done" /\ c.result = MsgBackend

\* C19: a call of createPoll, updatePoll, deletePoll or submitVote one of
\* whose store requests failed has returned the failure's message and takes
\* no further step.
C19_FailureSurfaced ==
  FailureSurfacedIn({"createPoll", "updatePoll", "deletePoll", "deletePollById",
                     "submitVote", "submitVoteIndex"})

\* C19, without submitVote(pollId, optionId)
C19_FailureSurfacedOutsideSubmitVoteById ==
  FailureSurfacedIn({"createPoll", "updatePoll", "deletePoll", "deletePollById",
                     "submitVoteIndex"})

\* what getUser returns for the signed-in owner of the poll
OwnerAuths(pollId) ==
  {auth \in AuthOutcomes :
     auth.error = NullV /\ auth.user = polls[pollId].user_id}

\* r is {error: null} with the poll row pollId gone and every other row kept
RemovedExactly(pollId, r) ==
  /\ r.result = NullV
  /\ r.polls = [i \in DOMAIN polls \ {pollId} |-> polls[i]]

\* C20: in every reachable store, deletePoll(pollId) called by the signed-in
\* owner of an existing poll, the store answering, returns {error: null} and
\* leaves the polls table without the row pollId and otherwise as it was.
C20_OwnerDeleteRemovesPoll ==
  \A pollId \in DOMAIN polls : \A auth \in OwnerAuths(pollId) :
    RemovedExactly(pollId, deletePoll(pollId, auth, FALSE))

\* C20, of the earlier deletePoll(id)
C20_OwnerDeleteByIdRemovesPoll ==
  \A id \in DOMAIN polls : \A auth \in OwnerAuths(id) :
    RemovedExactly(id, deletePollById(id, auth, FALSE))

\* c returned without an error: {error: null} or {success: true}
ReturnedOk(c) == c.pc = "done" /\ c.result \in {NullV, ResultSuccess}

\* the affected path of a call: the poll's page for a vote, the list otherwise
AffectedPath(c) ==
  IF c.op \in VoteOps THEN RevalidatedPoll ELSE RevalidatedPolls

\* every call of ops that has returned without an error has revalidated its
\* path, and no other call of ops has revalidated anything
RevalidatesIn(ops) ==
  \A c \in BagToSet(calls) :
    c.op \in ops =>
      c.revalidated = IF ReturnedOk(c) THEN AffectedPath(c) ELSE RevalidatedNone

\* C21: a call of createPoll, updatePoll, deletePoll or submitVote that has
\* returned without an error has passed its path to revalidatePath, and a
\* call that returned an error, threw or is still running has passed none.
C21_SuccessRevalidates ==
  RevalidatesIn({"createPoll", "updatePoll", "deletePoll", "deletePollById",
                 "submitVote", "submitVoteIndex"})

\* C21, without updatePoll and submitVote(pollId, optionIndex)
C21_SuccessRevalidatesWhereCalled ==
  RevalidatesIn({"createPoll", "deletePoll", "deletePollById", "submitVote"})

\* c has got past its insert of the vote row
Recorded(c) == c.pc = "update" \/ (c.pc = "done" /\ c.result = ResultSuccess)

\* C22, the option half: a submitVote(pollId, optionId) that has recorded its
\* vote row was given the id of one of the options it read from the poll.
C22_UnknownOptionRefused ==
  \A c \in BagToSet(calls) :
    c.op = "submitVote" /\ Recorded(c)
      => \E i \in DOMAIN c.upd : c.upd[i].id = c.opt

\* C22, the poll half: the poll read of a submitVote(pollId, optionId) for a
\* poll that is not in the store ends the call with 'Poll not found.'
C22_MissingPollRefused ==
  \A c \in At("submitVote", "read"), fail \in BOOLEAN :
    c.poll \notin DOMAIN polls
      => LET d == submitVoteRead(c, fail)
         IN d.pc = "done" /\ d.result = MsgPollNotFound

Rejected(message) == [isValid |-> FALSE, error |-> message]

LengthRuleOn(sanitized) ==
  LET length == JsLength(sanitized) IN
  IF length < 5 THEN verdict \in {Rejected(MsgQEmpty), Rejected(MsgQShort)}
  ELSE IF length > 200 THEN verdict = Rejected(MsgQLong)
  ELSE /\ verdict.isValid
       /\ verdict.sanitizedValue = sanitized
       /\ Count(verdict.sanitizedValue, TokScript) = 0

IsPlain(text) == Count(text, TokScript) = 0 /\ Count(text, "&") = 0

\* C24: the verdict on a question is invalid with the length message when
\* its sanitized text is shorter than 5 or longer than 200 characters, and
\* otherwise valid with the sanitized text, which holds no markup.
C24_LengthOnSanitizedText ==
  draft.kind = "question" /\ verdict # NoVerdict
    => LengthRuleOn(Sanitize(Trim(draft.question)))

\* C24, for questions without markup or ampersand
C24_LengthOnPlainText ==
  draft.kind = "question" /\ verdict # NoVerdict /\ IsPlain(draft.question)
    => LengthRuleOn(Sanitize(Trim(draft.question)))

\* the entries of a list of options that survive trimming, in their order
Surviving(options) ==
  SelectSeq([i \in DOMAIN options |-> Trim(options[i])], IsNonEmpty)

\* C25: the verdict on a list of options is, for the trimmed non-empty
\* entries: 'at least 2 non-empty options' when fewer than two remain, else
\* 'must be unique' when two of them are equal, else 'cannot exceed 100
\* characters' when one is longer than 100; else it is valid and its
\* sanitized list has, position by position, the sanitized surviving entry.
C25_OptionRulesInOrder ==
  draft.kind = "options" /\ verdict # NoVerdict =>
    LET kept == Surviving(draft.options) IN
    IF Len(kept) < 2 THEN verdict = Rejected(MsgOFew)
    ELSE IF \E i, j \in DOMAIN kept : i < j /\ kept[i] = kept[j]
    THEN verdict = Rejected(MsgODup)
    ELSE IF \E i \in DOMAIN kept : JsLength(kept[i]) > 100
    THEN verdict = Rejected(MsgOLong)
    ELSE /\ verdict.isValid
         /\ LET list == JsonParse(verdict.sanitizedValue) IN
            /\ Len(list) = Len(kept)
            /\ \A i \in DOMAIN kept : list[i] = Sanitize(kept[i])

\* C25 witness: a list with an empty entry between two others was accepted,
\* one of them of exactly 100 characters.
C25_Witness ==
  /\ draft.kind = "options"
  /\ Len(draft.options) = 3
  /\ draft.options[2] = <<>>
  /\ JsLength(draft.options[3]) = 100
  /\ verdict # NoVerdict
  /\ verdict.isValid
  /\ Len(JsonParse(verdict.sanitizedValue)) = 2

\* C26: with two or more surviving entries, the verdict is 'must be unique'
\* exactly when two trimmed entries are the same text, letter case included:
\* 'Yes' with 'Yes ' and 'X' with 'X' are refused so, and 'A' with 'a' is
\* accepted and returned as it was given.
C26_UniqueByExactMatch ==
  draft.kind = "options" /\ verdict # NoVerdict =>
    LET kept == Surviving(draft.options) IN
    /\ Len(kept) >= 2 =>
         (verdict = Rejected(MsgODup)
            <=> \E i, j \in DOMAIN kept : i < j /\ kept[i] = kept[j])
    /\ draft.options \in {<<TxtYes, TxtYes \o <<" ">>>>, <<<<"X">>, <<"X">>>>}
         => verdict = Rejected(MsgODup)
    /\ draft.options = <<<<"A">>, <<"a">>>>
         => /\ verdict.isValid
            /\ JsonParse(verdict.sanitizedValue) = <<<<"A">>, <<"a">>>>

\* C26 witness: the list 'A', 'a' was accepted.
C26_Witness ==
  /\ draft.kind = "options"
  /\ draft.options = <<<<"A">>, <<"a">>>>
  /\ verdict # NoVerdict
  /\ verdict.isValid

\* after differs from before in one option, whose votes went up by one
OneCounterUp(before, after) ==
  /\ Len(after) = Len(before)
  /\ \E i \in DOMAIN before :
       /\ after[i] = [before[i] EXCEPT !.votes = @ + 1]
       /\ \A j \in DOMAIN before \ {i} : after[j] = before[j]

\* C27: the step with which a submitVote(pollId, optionId) returns either
\* returns an error from a call that has inserted no vote row and leaves both
\* tables as they are, or returns success from a call that has inserted its
\* vote row and raises one counter of the poll by one.
C27_VoteAllOrNothing ==
  [][\A c \in BagToSet(calls), d \in BagToSet(calls') :
       Steps(c, d) /\ c.op = "submitVote" /\ d.pc = "done"
         => IF d.result = ResultSuccess
            THEN /\ c.pc = "update"
                 /\ c.poll \in DOMAIN polls
                 /\ OneCounterUp(polls[c.poll].options, polls'[c.poll].options)
            ELSE c.pc # "update" /\ polls' = polls /\ votes' = votes]_vars

\* C28: in every reachable store and for every outcome of the role lookup,
\* the admin check lets a signed-in user's /admin request go on exactly when
\* isAdmin() is true, which is exactly when the lookup got through and the
\* user's row says 'admin'; getUserRole gives 'user' when the lookup fails or
\* finds no row; isAdmin() is false without a session.
C28_AdminDecisionsAgree ==
  \A auth \in AuthOutcomes, fail \in BOOLEAN :
    IF auth.user = NoUser THEN isAdmin(auth, fail) = FALSE
    ELSE
      /\ \A cookiesToSet \in CookieSets :
           (checkAdminAccess(auth, cookiesToSet, fail).kind = "next")
             <=> (isAdmin(auth, fail) = TRUE)
      /\ (isAdmin(auth, fail) = TRUE)
           <=> (~fail /\ roles[auth.user] = "admin")
      /\ fail \/ roles[auth.user] = NullV
           => getUserRole(auth.user, fail) = "user"

\* C28 witness: the admin check let the request of a user through, and
\* isAdmin() is true for that user.
C28_Witness ==
  /\ AdminAnswer
  /\ resp.middleware.response.kind = "next"
  /\ resp.middleware.user \in Users
  /\ isAdmin([user |-> resp.middleware.user, error |-> NullV], FALSE) = TRUE

\* C29: in every reachable store, getUserPolls gives a signed-in caller,
\* the store answering, every poll row the caller owns once and no other,
\* without an error; a caller without a session the empty list with 'Not
\* authenticated', the polls table not asked; and on a store failure the
\* empty list with the store's message.
C29_OnlyOwnPolls ==
  \A auth \in AuthOutcomes, fail \in BOOLEAN :
    LET r == getUserPolls(auth, fail) IN
    IF auth.user = NoUser
    THEN r.polls = <<>> /\ r.error = MsgNotAuthenticated /\ ~r.queried
    ELSE IF fail
    THEN r.polls = <<>> /\ r.error = MsgBackend
    ELSE /\ r.error = NullV
         /\ \A i \in DOMAIN r.polls : r.polls[i].user_id = auth.user
         /\ {r.polls[i].id : i \in DOMAIN r.polls}
              = {id \in DOMAIN polls : polls[id].user_id = auth.user}
         /\ Len(r.polls) = Cardinality({r.polls[i].id : i \in DOMAIN r.polls})

\* C29 witness: the store holds polls of two owners, and getUserPolls gives
\* one of them a list that is neither empty nor the whole table.
C29_Witness ==
  \E auth \in AuthOutcomes :
    /\ auth.user \in Users
    /\ \E id \in DOMAIN polls : polls[id].user_id # auth.user
    /\ LET r == getUserPolls(auth, FALSE)
       IN r.error = NullV /\ Len(r.polls) >= 1
          /\ Len(r.polls) < Cardinality(DOMAIN polls)

\* C30: in every step of the PollDetail component: handleVote leaves the
\* state as it is when no option is selected; isSubmitting is true exactly
\* while handleVote awaits submitVote, and false once it has settled, however
\* it settled; hasVoted never goes back to false and becomes true only in the
\* step in which submitVote settles with success; and when submitVote settles,
\* error is set exactly if it returned an error or threw.
C30_HandleVoteProtocol ==
  [][/\ detail.selectedOption = NullV => handleVote(detail) = detail
     /\ detail'.isSubmitting <=> detail'.pc = "awaiting"
     /\ detail.hasVoted => detail'.hasVoted
     /\ ~detail.hasVoted /\ detail'.hasVoted
          => detail.pc = "awaiting" /\ detail'.outcome = ResultSuccess
     /\ detail.pc = "idle" /\ detail'.pc = "awaiting"
          => detail.selectedOption # NullV /\ detail'.error = NullV
     /\ detail.pc = "awaiting" /\ detail'.pc = "idle"
          => /\ ~detail'.isSubmitting
             /\ detail'.error # NullV <=> detail'.outcome # ResultSuccess
             /\ detail'.hasVoted <=> detail'.outcome = ResultSuccess]_vars

\* C30 witness: the third submission of the form has settled with success:
\* the component is no longer submitting, shows no error and has voted.
C30_Witness ==
  /\ detail.attempts = 3
  /\ detail.pc = "idle"
  /\ detail.outcome = ResultSuccess
  /\ detail.hasVoted /\ ~detail.isSubmitting /\ detail.error = NullV

====
